---- MODULE Spec2Model ----
(***************************************************************************)
(* A model of gtsam::CameraSet<CAMERA> (gtsam/geometry/CameraSet.h).       *)
(*                                                                         *)
(* The set is the vector cameras_.  add, print and equals are one step     *)
(* each; project is modelled statement by statement: the allocation of the *)
(* outputs (lines 96-100), one step per loop iteration (lines 102-110) and *)
(* the return (line 111).  The camera type is a template parameter: its    *)
(* dimensions Dim and ZDim are chosen once, in Init, and its project and   *)
(* equals are stand-ins for the camera's own.                              *)
(*                                                                         *)
(* Matrices are records [rows, cols, val] with val a function of the       *)
(* 0-based cell <<row, col>>.                                              *)
(***************************************************************************)
EXTENDS Integers, Sequences, FiniteSets

\* ---------------------------------------------------------------- bounds
MaxCams == 2
MaxCamera == 1
MaxPoint == 2
MaxDim == 7
MaxZDim == 2
MaxTol == 1

\* ------------------------------------------------------ program constants
\* Width of the pose Jacobian, F->resize(ZDim * nrCameras, 6).
PoseDim == 6
\* Width of the point Jacobian, E->resize(ZDim * nrCameras, 3).
PointDim == 3
\* A coefficient no statement has written since the matrix was (re)allocated.
Uninit == -1
\* A coefficient of the caller's matrix as it was passed in.
Junk == -2

VARIABLES
  Dim,      \* traits<CAMERA>::dimension
  ZDim,     \* traits<Z>::dimension
  cameras,  \* cameras_
  added,    \* history: the arguments of add, in call order
  pc,       \* "idle" between calls, "loop" inside project, "done" at a call's end
  call,     \* the operation in progress or last completed, with its arguments
  i,        \* project's loop index
  z,        \* project's local std::vector<Z> z
  F,        \* the caller's matrix behind F (EmptyMat when F is boost::none)
  E,        \* the caller's matrix behind E
  H,        \* the caller's matrix behind H
  ret,      \* how project ended: "none", "ok", "cheirality", "abort"
  oob,      \* project addressed a block outside a matrix's bounds
  eq,       \* what equals did: its result and the indices it touched
  out       \* what print wrote: the cameras, in order

vars == <<Dim, ZDim, cameras, added, pc, call, i, z, F, E, H, ret, oob, eq, out>>

Cameras == 0..MaxCamera
Points == 1..MaxPoint
Tolerances == 0..MaxTol
Dims == PoseDim..MaxDim
ZDims == 1..MaxZDim

\* ---------------------------------------------------------------- matrices
Cells(rows, cols) == (0..(rows - 1)) \X (0..(cols - 1))

Fill(rows, cols, v) ==
  [rows |-> rows, cols |-> cols, val |-> [c \in Cells(rows, cols) |-> v]]

EmptyMat == Fill(0, 0, Uninit)

\* Matrix::resize: a no-op when the shape is the same; otherwise the old
\* coefficients are lost (kept in storage, not meaningfully, when only the
\* shape and not the size changes).
Resize(m, rows, cols) ==
  IF m.rows = rows /\ m.cols = cols THEN m
  ELSE IF m.rows * m.cols = rows * cols THEN Fill(rows, cols, Junk)
  ELSE Fill(rows, cols, Uninit)

\* m.block<h, w>(r0, 0) lies inside m.
BlockInRange(m, r0, h, w) == r0 + h <= m.rows /\ w <= m.cols

\* m.block<h, w>(r0, 0) = blk: the coefficients of the block that m has.
BlockAssign(m, r0, h, w, blk) ==
  [m EXCEPT !.val = [c \in DOMAIN m.val |->
      IF c[1] >= r0 /\ c[1] < r0 + h /\ c[2] < w
      THEN blk[<<c[1] - r0, c[2]>>]
      ELSE m.val[c]]]

\* ------------------------------------------------- the camera (a stand-in)
Abs(x) == IF x < 0 THEN -x ELSE x

\* CAMERA::equals(other, tol)
CameraEquals(a, b, tol) == Abs(a - b) <= tol

\* CAMERA::project throws CheiralityException: the point is not in front.
CameraFails(c, p) == p <= c

\* CAMERA::project's return value, a Z of ZDim coordinates.
CamMeasure(c, p) == [r \in 1..ZDim |-> 10 * (p - c) + r]

\* CAMERA::project's three derivative blocks.
Dpose(c, p) ==
  [x \in Cells(ZDim, PoseDim) |-> 1000 * (c + 1) + 100 * p + 10 * x[1] + x[2]]

Dpoint(c, p) ==
  [x \in Cells(ZDim, PointDim) |->
      20000 + 1000 * (c + 1) + 100 * p + 10 * x[1] + x[2]]

Dcal(c, p) ==
  [x \in Cells(ZDim, Dim - PoseDim) |->
      40000 + 1000 * (c + 1) + 100 * p + 10 * x[1] + x[2]]

\* Z(): the value std::vector<Z> z(nrCameras) fills z with.
ZDefault == [r \in 1..ZDim |-> 0]

\* ------------------------------------------------------------------- calls
NoCall ==
  [op |-> "none", camera |-> 0, p |-> <<>>, tol |-> 0, point |-> 0,
   wantF |-> FALSE, wantE |-> FALSE, wantH |-> FALSE,
   F0 |-> EmptyMat, E0 |-> EmptyMat, H0 |-> EmptyMat]

NoEq == [ret |-> "none", compared |-> {}, accessed |-> {}]

\* The matrices a caller may pass: an empty one, or one of another shape
\* holding the caller's own coefficients.
PriorMats == {EmptyMat, Fill(ZDim * MaxCams, PoseDim, Junk)}

RECURSIVE SeqsUpTo(_, _)
SeqsUpTo(S, n) ==
  IF n = 0 THEN {<<>>}
  ELSE LET shorter == SeqsUpTo(S, n - 1)
       IN shorter \cup {Append(s, x) : s \in shorter, x \in S}

CameraSeqs == SeqsUpTo(Cameras, MaxCams)

\* --------------------------------------------------------------------- add
PushFront(cams, camera) == <<camera>> \o cams

\* cameras_.push_back(camera)
PushBack(cams, camera) == Append(cams, camera)

Add(camera) ==
  /\ pc = "idle"
  /\ Len(cameras) < MaxCams
  /\ cameras' = PushBack(cameras, camera)
  /\ added' = Append(added, camera)
  /\ call' = [NoCall EXCEPT !.op = "add", !.camera = camera]
  /\ i' = 0 /\ z' = <<>> /\ F' = EmptyMat /\ E' = EmptyMat /\ H' = EmptyMat
  /\ ret' = "none" /\ oob' = FALSE /\ eq' = NoEq /\ out' = <<>>
  /\ pc' = "done"
  /\ UNCHANGED <<Dim, ZDim>>

\* ------------------------------------------------------------------- print
PrintCameras ==
  /\ pc = "idle"
  /\ out' = [k \in 1..Len(cameras) |-> cameras[k]]
  /\ call' = [NoCall EXCEPT !.op = "print"]
  /\ i' = 0 /\ z' = <<>> /\ F' = EmptyMat /\ E' = EmptyMat /\ H' = EmptyMat
  /\ ret' = "none" /\ oob' = FALSE /\ eq' = NoEq
  /\ pc' = "done"
  /\ UNCHANGED <<Dim, ZDim, cameras, added>>

\* ------------------------------------------------------------------ equals
EqualsChecked(this, p, tol) ==
  IF Len(this) # Len(p)
  THEN [ret |-> "false", compared |-> {}, accessed |-> {}]
  ELSE IF 0 < Len(this)
       THEN [ret |-> IF CameraEquals(this[1], p[1], tol) THEN "true" ELSE "false",
             compared |-> {0}, accessed |-> {0}]
       ELSE [ret |-> "true", compared |-> {}, accessed |-> {}]

\* The loop of equals: its body runs for i = 0 only, the break being
\* unconditional.  p.cameras_.at(0) throws std::out_of_range when p is empty.
EqualsLoop(this, p, tol) ==
  IF 0 < Len(this)
  THEN IF 0 >= Len(p)
       THEN [ret |-> "out_of_range", compared |-> {}, accessed |-> {0}]
       ELSE [ret |-> IF CameraEquals(this[1], p[1], tol) = FALSE
                     THEN "false" ELSE "true",
             compared |-> {0}, accessed |-> {0}]
  ELSE [ret |-> "true", compared |-> {}, accessed |-> {}]

Equals(p, tol) ==
  /\ pc = "idle"
  /\ eq' = EqualsLoop(cameras, p, tol)
  /\ call' = [NoCall EXCEPT !.op = "equals", !.p = p, !.tol = tol]
  /\ i' = 0 /\ z' = <<>> /\ F' = EmptyMat /\ E' = EmptyMat /\ H' = EmptyMat
  /\ ret' = "none" /\ oob' = FALSE /\ out' = <<>>
  /\ pc' = "done"
  /\ UNCHANGED <<Dim, ZDim, cameras, added>>

\* ----------------------------------------------------------------- project
ResizeIfEmpty(m, rows, cols) ==
  IF m.rows = 0 /\ m.cols = 0 THEN Resize(m, rows, cols) ELSE m

\* F->resize, E->resize, H->resize (lines 97-99)
ResizeOutput(m, rows, cols) == Resize(m, rows, cols)

\* Lines 96-100: the outputs as they are before the loop.
ProjectAlloc(cams, a) ==
  LET nrCameras == Len(cams)
  IN [z |-> [k \in 1..nrCameras |-> ZDefault],
      F |-> IF a.wantF THEN ResizeOutput(a.F0, ZDim * nrCameras, PoseDim)
            ELSE a.F0,
      E |-> IF a.wantE THEN ResizeOutput(a.E0, ZDim * nrCameras, PointDim)
            ELSE a.E0,
      H |-> IF a.wantH /\ Dim > PoseDim
            THEN ResizeOutput(a.H0, ZDim * nrCameras, Dim - PoseDim)
            ELSE a.H0]

BlockRowUnscaled(k) == k

\* The first row of camera k's block: ZDim * i
BlockRow(k) == ZDim * k

StoreMeasurementUnlessF(zs, k, c, a) ==
  IF a.wantF THEN zs ELSE [zs EXCEPT ![k + 1] = CamMeasure(c, a.point)]

\* z[i] = cameras_[i].project(point, F ? &Fi : 0, E ? &Ei : 0, H ? &Hi : 0)
StoreMeasurement(zs, k, c, a) ==
  [zs EXCEPT ![k + 1] = CamMeasure(c, a.point)]

BodySpill(st, cams, a, k) ==
  LET c == cams[k + 1]
  IN [z |-> StoreMeasurement(st.z, k, c, a),
      F |-> IF a.wantF
            THEN [st.F EXCEPT !.val = [x \in DOMAIN st.F.val |->
                    IF x[1] >= BlockRow(k) THEN Dpose(c, a.point)[<<0, x[2]>>]
                    ELSE st.F.val[x]]]
            ELSE st.F,
      E |-> IF a.wantE
            THEN BlockAssign(st.E, BlockRow(k), ZDim, PointDim, Dpoint(c, a.point))
            ELSE st.E,
      H |-> IF a.wantH
            THEN BlockAssign(st.H, BlockRow(k), ZDim, Dim - PoseDim, Dcal(c, a.point))
            ELSE st.H]

\* Lines 103-109 for camera k (0-based), when its projection does not throw:
\* what the iteration leaves in z, F, E and H.
Body(st, cams, a, k) ==
  LET c == cams[k + 1]
  IN [z |-> StoreMeasurement(st.z, k, c, a),
      F |-> IF a.wantF
            THEN BlockAssign(st.F, BlockRow(k), ZDim, PoseDim, Dpose(c, a.point))
            ELSE st.F,
      E |-> IF a.wantE
            THEN BlockAssign(st.E, BlockRow(k), ZDim, PointDim, Dpoint(c, a.point))
            ELSE st.E,
      H |-> IF a.wantH
            THEN BlockAssign(st.H, BlockRow(k), ZDim, Dim - PoseDim, Dcal(c, a.point))
            ELSE st.H]

\* Lines 107-109 address a block that its matrix does not hold.  F and E were
\* resized for every camera; H was resized only when Dim > 6, while line 109
\* runs whenever H was passed.
BodyOutOfRange(st, a, k) ==
  \/ a.wantF /\ ~BlockInRange(st.F, BlockRow(k), ZDim, PoseDim)
  \/ a.wantE /\ ~BlockInRange(st.E, BlockRow(k), ZDim, PointDim)
  \/ a.wantH /\ ~BlockInRange(st.H, BlockRow(k), ZDim, Dim - PoseDim)

\* The loop run over the cameras in a given order.
RECURSIVE RunOrder(_, _, _, _)
RunOrder(st, cams, a, order) ==
  IF order = <<>> THEN st
  ELSE RunOrder(Body(st, cams, a, Head(order)), cams, a, Tail(order))

Locals == [z |-> z, F |-> F, E |-> E, H |-> H]

ProjectBegin(point, wantF, wantE, wantH, F0, E0, H0) ==
  /\ pc = "idle"
  /\ LET a == [NoCall EXCEPT !.op = "project", !.point = point,
                 !.wantF = wantF, !.wantE = wantE, !.wantH = wantH,
                 !.F0 = F0, !.E0 = E0, !.H0 = H0]
         st == ProjectAlloc(cameras, a)
     IN /\ call' = a
        /\ z' = st.z /\ F' = st.F /\ E' = st.E /\ H' = st.H
  /\ i' = 0
  /\ pc' = "loop"
  /\ ret' = "none" /\ oob' = FALSE /\ eq' = NoEq /\ out' = <<>>
  /\ UNCHANGED <<Dim, ZDim, cameras, added>>

\* Line 106 throws: the exception leaves project, and z with it.
ProjectThrow ==
  /\ pc = "loop"
  /\ i < Len(cameras)
  /\ CameraFails(cameras[i + 1], call.point)
  /\ ret' = "cheirality"
  /\ z' = <<>>
  /\ pc' = "done"
  /\ UNCHANGED <<Dim, ZDim, cameras, added, call, i, F, E, H, oob, eq, out>>

\* One iteration, lines 103-109, run to its end.
ProjectIteration ==
  /\ pc = "loop"
  /\ i < Len(cameras)
  /\ ~CameraFails(cameras[i + 1], call.point)
  /\ LET st == Body(Locals, cameras, call, i)
     IN z' = st.z /\ F' = st.F /\ E' = st.E /\ H' = st.H
  /\ oob' = (oob \/ BodyOutOfRange(Locals, call, i))
  /\ i' = i + 1
  /\ UNCHANGED <<Dim, ZDim, cameras, added, pc, call, ret, eq, out>>

\* One iteration whose block lies outside its matrix, in a build that checks
\* the block's range (Eigen's assertion in block<>()): the process ends
\* there.  A build without the check runs ProjectIteration instead.
ProjectAbort ==
  /\ pc = "loop"
  /\ i < Len(cameras)
  /\ ~CameraFails(cameras[i + 1], call.point)
  /\ BodyOutOfRange(Locals, call, i)
  /\ oob' = TRUE
  /\ ret' = "abort"
  /\ z' = <<>>
  /\ pc' = "done"
  /\ UNCHANGED <<Dim, ZDim, cameras, added, call, i, F, E, H, eq, out>>

\* Line 111: return z.
ProjectReturn ==
  /\ pc = "loop"
  /\ i >= Len(cameras)
  /\ ret' = "ok"
  /\ pc' = "done"
  /\ UNCHANGED <<Dim, ZDim, cameras, added, call, i, z, F, E, H, oob, eq, out>>

\* The call is over: control is back in the caller, and the call's arguments
\* and results are out of the picture.  cameras_ stays.
ReturnToCaller ==
  /\ pc = "done"
  /\ pc' = "idle"
  /\ call' = NoCall
  /\ i' = 0 /\ z' = <<>> /\ F' = EmptyMat /\ E' = EmptyMat /\ H' = EmptyMat
  /\ ret' = "none" /\ oob' = FALSE /\ eq' = NoEq /\ out' = <<>>
  /\ UNCHANGED <<Dim, ZDim, cameras, added>>

\* ------------------------------------------------------------ specification
Init ==
  /\ Dim \in Dims
  /\ ZDim \in ZDims
  /\ cameras = <<>>
  /\ added = <<>>
  /\ pc = "idle"
  /\ call = NoCall
  /\ i = 0 /\ z = <<>> /\ F = EmptyMat /\ E = EmptyMat /\ H = EmptyMat
  /\ ret = "none" /\ oob = FALSE /\ eq = NoEq /\ out = <<>>

Next ==
  \/ \E camera \in Cameras : Add(camera)
  \/ PrintCameras
  \/ \E p \in CameraSeqs, tol \in Tolerances : Equals(p, tol)
  \/ \E point \in Points, wantF, wantE, wantH \in BOOLEAN :
       \E F0 \in (IF wantF THEN PriorMats ELSE {EmptyMat}),
          E0 \in (IF wantE THEN PriorMats ELSE {EmptyMat}),
          H0 \in (IF wantH THEN PriorMats ELSE {EmptyMat}) :
         ProjectBegin(point, wantF, wantE, wantH, F0, E0, H0)
  \/ ProjectThrow
  \/ ProjectIteration
  \/ ProjectAbort
  \/ ProjectReturn
  \/ ReturnToCaller

Spec == Init /\ [][Next]_vars

\* ------------------------------------------------------------------ claims
N == Len(cameras)

\* project has ended, one way or another.
ProjectDone == pc = "done" /\ call.op = "project"

\* project has returned z.
Returned == ProjectDone /\ ret = "ok"

NoCameraFails == \A k \in 1..N : ~CameraFails(cameras[k], call.point)

\* The orders in which the N cameras can be processed.
Orders == {s \in [1..N -> 0..(N - 1)] : \A a, b \in 1..N : s[a] = s[b] => a = b}

\* The row-block of camera k (0-based) in a stacked matrix.
InBlock(x, k) == x[1] >= ZDim * k /\ x[1] < ZDim * (k + 1)

\* Rows [ZDim*k, ZDim*(k+1)) and columns [0, w) of m hold blk.
BlockIs(m, k, w, blk) ==
  \A x \in Cells(ZDim, w) :
    /\ <<ZDim * k + x[1], x[2]>> \in DOMAIN m.val
    /\ m.val[<<ZDim * k + x[1], x[2]>>] = blk[x]

\* C1: when no camera fails on the point, project returns a measurement
\* sequence with exactly one entry per camera, whichever of F, E and H the
\* caller passed.
C1_OneMeasurementPerCamera ==
  (ProjectDone /\ NoCameraFails) => (ret = "ok" /\ Len(z) = N)

\* C2: after a successful project on N cameras, F is (ZDim*N) x 6 when
\* passed, E is (ZDim*N) x 3 when passed, and H is (ZDim*N) x (Dim-6) when
\* passed and Dim > 6 (so zero rows for N = 0), whatever shape the caller's
\* matrix had before the call.
C2_StackedShapes ==
  Returned =>
    /\ call.wantF => (F.rows = ZDim * N /\ F.cols = 6)
    /\ call.wantE => (E.rows = ZDim * N /\ E.cols = 3)
    /\ (call.wantH /\ Dim > 6) => (H.rows = ZDim * N /\ H.cols = Dim - 6)

C2_Witness ==
  /\ Returned /\ N = 2 /\ Dim > 6
  /\ call.wantF /\ call.wantE /\ call.wantH
  /\ call.F0 # EmptyMat /\ call.E0 # EmptyMat /\ call.H0 # EmptyMat
  /\ F.rows = ZDim * 2 /\ H.cols = Dim - 6

\* C3: after a successful project, for every camera i, measurement slot i is
\* camera i's own projection of the point, and row-block i of each of F, E
\* and H that was passed is the block camera i's own projection produces,
\* cameras being indexed in insertion order.
C3_BlocksAreTheCamerasOwn ==
  Returned =>
    \A k \in 0..(N - 1) :
      /\ z[k + 1] = CamMeasure(added[k + 1], call.point)
      /\ call.wantF => BlockIs(F, k, 6, Dpose(added[k + 1], call.point))
      /\ call.wantE => BlockIs(E, k, 3, Dpoint(added[k + 1], call.point))
      /\ call.wantH => BlockIs(H, k, Dim - 6, Dcal(added[k + 1], call.point))

C3_Witness ==
  /\ Returned /\ N = 2 /\ cameras[1] # cameras[2]
  /\ ZDim >= 2 /\ Dim > 6
  /\ call.wantF /\ call.wantE /\ call.wantH
  /\ F.val[<<ZDim, 0>>] = Dpose(cameras[2], call.point)[<<0, 0>>]

\* C4: equals returns true only if every camera of this set equals, under
\* the camera's equality with tolerance, the camera of other at the same
\* index; two sets of equal length that differ at one index compare unequal.
C4_TrueOnlyIfAllEqual ==
  (call.op = "equals" /\ Len(call.p) = N /\ eq.ret = "true") =>
    \A k \in 1..N : CameraEquals(cameras[k], call.p[k], call.tol)

\* C5: when the projection fails for some camera of the set, project ends
\* with that error: it returns no measurement sequence, leaves the rows of
\* the failing camera and of the later ones unwritten, and processes no
\* camera after the failing one.
C5_FailurePropagates ==
  (ProjectDone /\ ~NoCameraFails) =>
    /\ ret = "cheirality"
    /\ z = <<>>
    /\ CameraFails(cameras[i + 1], call.point)
    /\ \A k \in 1..i : ~CameraFails(cameras[k], call.point)
    /\ \A x \in DOMAIN F.val : x[1] >= ZDim * i => F.val[x] \in {Uninit, Junk}
    /\ \A x \in DOMAIN E.val : x[1] >= ZDim * i => E.val[x] \in {Uninit, Junk}
    /\ \A x \in DOMAIN H.val : x[1] >= ZDim * i => H.val[x] \in {Uninit, Junk}

\* C6: with Dim = 6 and H passed, project gives no H output: the caller's H
\* is neither resized nor written, for any number of cameras, and nothing
\* outside H's bounds is addressed.
C6_NoHOutputWhenDimIs6 ==
  (call.op = "project" /\ Dim = 6 /\ call.wantH) => (H = call.H0 /\ ~oob)

\* C7: the measurements project returns do not depend on which of F, E and H
\* were passed: they are those of the same call with any other combination.
C7_FlagsDoNotChangeMeasurements ==
  Returned =>
    \A wf, we, wh \in BOOLEAN :
      LET a == [NoCall EXCEPT !.op = "project", !.point = call.point,
                  !.wantF = wf, !.wantE = we, !.wantH = wh]
      IN RunOrder(ProjectAlloc(cameras, a), cameras, a, [k \in 1..N |-> k - 1]).z = z

C7_Witness ==
  /\ Returned /\ N >= 1
  /\ call.wantF /\ call.wantE /\ call.wantH
  /\ z[1] = CamMeasure(cameras[1], call.point)
  /\ z[1] # ZDefault

\* C8: the stored cameras are the cameras passed to add, in call order:
\* add appends one camera at the end and leaves the earlier ones, and
\* project, equals and print, whether they succeed or fail, leave the
\* sequence as it is; its length never decreases.
C8_Step ==
  /\ Len(cameras') >= Len(cameras)
  /\ SubSeq(cameras', 1, Len(cameras)) = cameras
  /\ (pc = "idle" /\ call'.op = "add") => cameras' = Append(cameras, call'.camera)
  /\ ~(pc = "idle" /\ call'.op = "add") => cameras' = cameras

C8_CamerasAreTheAddedOnes == [](cameras = added) /\ [][C8_Step]_vars

C8_Witness ==
  /\ ProjectDone /\ ret = "cheirality"
  /\ N = 2 /\ cameras[1] # cameras[2]

\* C9: equals checks no cardinality.  On sets of different lengths it fails
\* only by an access past the end of other's cameras, and otherwise returns
\* the boolean the pairs it compared decide.
C9_NoCardinalityCheck ==
  (call.op = "equals" /\ Len(call.p) # N) =>
    /\ eq.ret \in {"true", "false", "out_of_range"}
    /\ eq.ret = "out_of_range" <=> (\E k \in eq.accessed : k >= Len(call.p))
    /\ eq.ret # "out_of_range" =>
         /\ \A k \in eq.compared : k < N /\ k < Len(call.p)
         /\ eq.ret = "true" <=>
              \A k \in eq.compared :
                CameraEquals(cameras[k + 1], call.p[k + 1], call.tol)

C9_Witness ==
  call.op = "equals" /\ N = 2 /\ call.p = <<>> /\ eq.ret = "out_of_range"

\* C10, in the loop: z and every matrix project resizes have their final
\* size from before the first camera on.
C10_Sized ==
  pc = "loop" =>
    /\ Len(z) = N
    /\ call.wantF => (F.rows = ZDim * N /\ F.cols = 6)
    /\ call.wantE => (E.rows = ZDim * N /\ E.cols = 3)
    /\ (call.wantH /\ Dim > 6) => (H.rows = ZDim * N /\ H.cols = Dim - 6)

\* C10, at the return: every slot and every row of the outputs was written,
\* and the outputs are those of the loop run in any order.
C10_AnyOrder ==
  Returned =>
    /\ \A k \in 1..N : z[k] # ZDefault
    /\ call.wantF => \A x \in DOMAIN F.val : F.val[x] >= 0
    /\ call.wantE => \A x \in DOMAIN E.val : E.val[x] >= 0
    /\ (call.wantH /\ Dim > 6) => \A x \in DOMAIN H.val : H.val[x] >= 0
    /\ \A order \in Orders :
         RunOrder(ProjectAlloc(cameras, call), cameras, call, order) = Locals

\* C10, one iteration: camera i's work writes slot i of z and row-block i of
\* the matrices, from the point and camera i alone, and nothing else.
C10_Step ==
  (pc = "loop" /\ pc' = "loop" /\ i' = i + 1) =>
    /\ z' = [z EXCEPT ![i + 1] = CamMeasure(cameras[i + 1], call.point)]
    /\ F'.rows = F.rows /\ F'.cols = F.cols /\ DOMAIN F'.val = DOMAIN F.val
    /\ E'.rows = E.rows /\ E'.cols = E.cols /\ DOMAIN E'.val = DOMAIN E.val
    /\ H'.rows = H.rows /\ H'.cols = H.cols /\ DOMAIN H'.val = DOMAIN H.val
    /\ \A x \in DOMAIN F.val : ~InBlock(x, i) => F'.val[x] = F.val[x]
    /\ \A x \in DOMAIN E.val : ~InBlock(x, i) => E'.val[x] = E.val[x]
    /\ \A x \in DOMAIN H.val : ~InBlock(x, i) => H'.val[x] = H.val[x]
    /\ cameras' = cameras /\ call' = call

\* C10: within one project call the outputs are sized before any camera is
\* processed; camera i's work reads the point and camera i and writes slot i
\* and rows ZDim*i .. ZDim*(i+1)-1 only; the parts written for different
\* cameras are disjoint and cover the outputs; so, on a point no camera
\* fails on, any processing order gives the outputs of the in-order loop.
C10_DisjointRowBlocks == [](C10_Sized /\ C10_AnyOrder) /\ [][C10_Step]_vars

C10_Witness ==
  /\ Returned /\ N = 2 /\ cameras[1] # cameras[2] /\ ZDim >= 2
  /\ call.wantF /\ call.wantE /\ call.wantH
  /\ call.F0 # EmptyMat
  /\ Cardinality(Orders) = 2

====
